---- MODULE Spec2Model ----
(***************************************************************************)
(* Model of the answer-sheet pipeline of saeb-questions:                   *)
(*   separed.py       the three splitters of a photographed answer sheet   *)
(*   gemini_model.py  segment_image_blocks, analyze_block_async,           *)
(*                    process_blocks_async                                 *)
(*   app.py           the /analyze handler and its normalisation loop      *)
(*                                                                         *)
(* Python values are records [k |-> kind, v |-> payload]; the kind is      *)
(* always tested before the payload is read.  Strings whose characters     *)
(* matter (question keys, answers) are sequences of one-character strings. *)
(* A dict is the sequence of its (key, value) pairs in insertion order.    *)
(***************************************************************************)
EXTENDS Integers, Sequences, FiniteSets, TLC

VARIABLES
    entry,        \* which public function is called: "analyze", "process", "segment"
    request,      \* the HTTP request of /analyze: [auth, hasImage]
    method,       \* the method argument of segment_image_blocks
    image,        \* the photographed sheet behind image_path
    inBlocks,     \* the argument of a direct process_blocks_async call
    serviceReply, \* what the vision service answers to the call of block k
    pc,           \* position of the caller: "start", "loop", "done"
    cut,          \* what the splitter run by segment_image_blocks handed back
    segmented,    \* value returned by segment_image_blocks
    blocks,       \* the list process_blocks_async was called with
    task,         \* task[k]: "pending", "calling" or "done"
    ready,        \* the event loop's FIFO queue of tasks not yet started
    taskResult,   \* taskResult[k]: value returned by analyze_block_async
    callLog,      \* block_id of every external call issued, in issue order
    responses,    \* value returned by process_blocks_async
    http          \* the handler's reply: [status, body]

vars == << entry, request, method, image, inBlocks, serviceReply, pc, cut,
           segmented, blocks, task, ready, taskResult, callLog, responses, http >>

----------------------------------------------------------------------------
(* Bounds of the model *)

MaxBlocks == 3      \* longest block list of a direct process_blocks_async call
MaxKeyLen == 3      \* longest raw question key
MaxAnsLen == 3      \* longest raw answer
MaxItems == 2       \* longest questions_marked_processed list

----------------------------------------------------------------------------
(* Python values *)

NoneV == [k |-> "none", v |-> 0]
BoolV(b) == [k |-> "bool", v |-> b]
IntV(n) == [k |-> "int", v |-> n]
StrV(s) == [k |-> "str", v |-> s]
\* a str whose characters the model never reads (a fixed message)
TextV(s) == [k |-> "text", v |-> s]
ListV(s) == [k |-> "list", v |-> s]
DictV(pairs) == [k |-> "dict", v |-> pairs]
Pair(key, val) == [key |-> key, val |-> val]

\* bool(x): Python truthiness
Truthy(x) ==
    CASE x.k = "none" -> FALSE
      [] x.k = "bool" -> x.v
      [] x.k = "int" -> x.v # 0
      [] x.k = "str" -> Len(x.v) > 0
      [] x.k = "text" -> x.v # ""
      [] x.k = "list" -> Len(x.v) > 0
      [] x.k = "dict" -> Len(x.v) > 0
      [] OTHER -> TRUE

\* key in d, for a dict d
HasKey(d, key) == \E i \in 1..Len(d.v) : d.v[i].key = key

\* d[key], for a dict d that has the key
Lookup(d, key) == d.v[CHOOSE i \in 1..Len(d.v) : d.v[i].key = key].val

\* d.get(key, default), for a dict d
Get(d, key, default) == IF HasKey(d, key) THEN Lookup(d, key) ELSE default

----------------------------------------------------------------------------
(* str methods and int() used by the normalisation loop of app.py *)

UpperLetters == << "A", "B", "C", "D", "E", "F", "G", "H", "I", "J", "K", "L", "M",
                   "N", "O", "P", "Q", "R", "S", "T", "U", "V", "W", "X", "Y", "Z" >>
LowerLetters == << "a", "b", "c", "d", "e", "f", "g", "h", "i", "j", "k", "l", "m",
                   "n", "o", "p", "q", "r", "s", "t", "u", "v", "w", "x", "y", "z" >>
Digits == << "0", "1", "2", "3", "4", "5", "6", "7", "8", "9" >>

IsDigit(c) == \E i \in 1..Len(Digits) : Digits[i] = c
DigitVal(c) == (CHOOSE i \in 1..Len(Digits) : Digits[i] = c) - 1

LowerChar(c) ==
    IF \E i \in 1..Len(UpperLetters) : UpperLetters[i] = c
    THEN LowerLetters[CHOOSE i \in 1..Len(UpperLetters) : UpperLetters[i] = c]
    ELSE c

\* s.lower(), s a sequence of characters
StrLower(s) == [i \in 1..Len(s) |-> LowerChar(s[i])]

\* s.lstrip("0"): drop the leading "0" characters, one at a time
RECURSIVE LStripZeros(_)
LStripZeros(s) ==
    IF Len(s) > 0 /\ Head(s) = "0" THEN LStripZeros(Tail(s)) ELSE s

\* value of a run of decimal digits, most significant first
RECURSIVE DecimalValue(_)
DecimalValue(ds) ==
    IF Len(ds) = 0 THEN 0
    ELSE 10 * DecimalValue(SubSeq(ds, 1, Len(ds) - 1)) + DigitVal(ds[Len(ds)])

\* int(s) for a str s over digits, "-" and letters: an optional sign, then one
\* or more digits; anything else raises ValueError (ok = FALSE)
IntOfStr(s) ==
    LET neg == Len(s) > 0 /\ Head(s) = "-"
        ds  == IF neg THEN Tail(s) ELSE s
        ok  == Len(ds) > 0 /\ \A i \in 1..Len(ds) : IsDigit(ds[i])
    IN  [ok |-> ok,
         val |-> IF ok THEN (IF neg THEN 0 - DecimalValue(ds) ELSE DecimalValue(ds))
                 ELSE 0]

----------------------------------------------------------------------------
(* app.py, analyze_image: the normalisation loop (lines 52-85).  Every     *)
(* operator returns [exc, val]: exc is TRUE when the Python code raises    *)
(* there (the handler's "except Exception" then answers 500).              *)

\* mutant of NormalizeQuestion: the fallback keeps the stripped string
NormalizeQuestionKeepsStripped(q_raw) ==
    IF q_raw.k # "str"
    THEN [exc |-> TRUE, val |-> NoneV]
    ELSE LET stripped == LStripZeros(q_raw.v)
             parsed   == IntOfStr(IF Len(stripped) > 0 THEN stripped ELSE << "0" >>)
         IN  [exc |-> FALSE,
              val |-> IF parsed.ok THEN IntV(parsed.val) ELSE StrV(stripped)]

\* lines 68-72: the question key
NormalizeQuestion(q_raw) ==
    IF q_raw.k # "str"
    THEN [exc |-> TRUE, val |-> NoneV]            \* no lstrip: AttributeError
    ELSE LET stripped == LStripZeros(q_raw.v)
             parsed   == IntOfStr(IF Len(stripped) > 0 THEN stripped ELSE << "0" >>)
         IN  [exc |-> FALSE,
              val |-> IF parsed.ok THEN IntV(parsed.val) ELSE q_raw]

\* mutant of NormalizeAnswer: only a single letter is lower-cased
NormalizeAnswerSingleLetter(a_raw) ==
    IF a_raw.k = "str" /\ Len(a_raw.v) = 1 THEN StrV(StrLower(a_raw.v)) ELSE a_raw

\* lines 74-78: the answer
NormalizeAnswer(a_raw) ==
    IF a_raw.k = "str" THEN StrV(StrLower(a_raw.v)) ELSE a_raw

\* lines 65-83: one item of questions_marked_processed
NormalizeItem(item) ==
    IF item.k # "dict"
    THEN [exc |-> TRUE, val |-> NoneV]            \* no get: AttributeError
    ELSE LET q_raw == Get(item, "question", StrV(<< >>))
             a_raw == Get(item, "answer", NoneV)
             q     == NormalizeQuestion(q_raw)
         IN  IF q.exc THEN [exc |-> TRUE, val |-> NoneV]
             ELSE [exc |-> FALSE,
                   val |-> DictV(<< Pair("question", q.val),
                                    Pair("answer", NormalizeAnswer(a_raw)) >>)]

\* line 64: what "for item in x" iterates over; ok = FALSE when x is not iterable
IterItems(x) ==
    CASE x.k = "list" -> [ok |-> TRUE, items |-> x.v]
      [] x.k = "dict" -> [ok |-> TRUE,
                          items |-> [i \in 1..Len(x.v) |-> TextV(x.v[i].key)]]
      [] x.k = "str"  -> [ok |-> TRUE,
                          items |-> [i \in 1..Len(x.v) |-> StrV(<< x.v[i] >>)]]
      [] OTHER -> [ok |-> FALSE, items |-> << >>]

\* lines 64-83: the loop over the items, stopping at the first exception
RECURSIVE NormalizeItems(_)
NormalizeItems(items) ==
    IF Len(items) = 0 THEN [exc |-> FALSE, val |-> << >>]
    ELSE LET first == NormalizeItem(Head(items))
         IN  IF first.exc THEN [exc |-> TRUE, val |-> << >>]
             ELSE LET rest == NormalizeItems(Tail(items))
                  IN  IF rest.exc THEN [exc |-> TRUE, val |-> << >>]
                      ELSE [exc |-> FALSE, val |-> << first.val >> \o rest.val]

\* line 54: "questions_marked_processed" not in r; ok = FALSE when r supports
\* no membership test (TypeError)
LacksQmp(r) ==
    CASE r.k = "dict" -> [ok |-> TRUE, val |-> ~HasKey(r, "questions_marked_processed")]
      [] r.k = "list" -> [ok |-> TRUE, val |-> TRUE]
      [] r.k = "str"  -> [ok |-> TRUE, val |-> TRUE]
      [] r.k = "text" -> [ok |-> TRUE, val |-> TRUE]
      [] OTHER -> [ok |-> FALSE, val |-> TRUE]

ErrorEntry(i) ==
    DictV(<< Pair("block", IntV(i)), Pair("error", TextV("Resposta invalida")) >>)

ResponseEntry(i, qmp, valid) ==
    DictV(<< Pair("block", IntV(i)),
             Pair("response",
                  DictV(<< Pair("questions_marked_processed", ListV(qmp)),
                           Pair("is_valid_img", valid) >>)) >>)

\* lines 54-85: the report entry of block i with raw result r
NormalizeBlock(r, i) ==
    IF ~Truthy(r) THEN [exc |-> FALSE, val |-> ErrorEntry(i)]
    ELSE LET lacks == LacksQmp(r)
         IN  IF ~lacks.ok THEN [exc |-> TRUE, val |-> NoneV]
             ELSE IF lacks.val THEN [exc |-> FALSE, val |-> ErrorEntry(i)]
             ELSE LET valid == Get(r, "is_valid_img", BoolV(FALSE))
                      it    == IterItems(Lookup(r, "questions_marked_processed"))
                      norm  == NormalizeItems(it.items)
                  IN  IF ~it.ok \/ norm.exc THEN [exc |-> TRUE, val |-> NoneV]
                      ELSE [exc |-> FALSE, val |-> ResponseEntry(i, norm.val, valid)]

\* line 53: enumerate(responses, start=1)
FirstOrdinal == 1

\* lines 52-85: the loop over the responses, from position n on
RECURSIVE BuildResult(_, _)
BuildResult(resps, n) ==
    IF n > Len(resps) THEN [exc |-> FALSE, val |-> << >>]
    ELSE LET first == NormalizeBlock(resps[n], n - 1 + FirstOrdinal)
         IN  IF first.exc THEN [exc |-> TRUE, val |-> << >>]
             ELSE LET rest == BuildResult(resps, n + 1)
                  IN  IF rest.exc THEN [exc |-> TRUE, val |-> << >>]
                      ELSE [exc |-> FALSE, val |-> << first.val >> \o rest.val]

----------------------------------------------------------------------------
(* separed.py: the splitters.  The sheet behind image_path is                *)
(* [readable, H, W, rows, cols]: cv2.imread returns None when it is not      *)
(* readable; otherwise the adaptive threshold of the method's region of      *)
(* interest marks pixel (y, x) as foreground iff y \in rows and x \in cols   *)
(* (a ruled sheet).  The thresholding itself is OpenCV's and not modelled;   *)
(* the re-thresholded crop of detect_question_blocks is taken to be the      *)
(* same map restricted to the crop.  int(H * f) is computed in integers,     *)
(* which agrees with the float product for every H below 180.                *)

Foreground(img, y, x) == y \in img.rows /\ x \in img.cols

Max(a, b) == IF a >= b THEN a ELSE b
Min(a, b) == IF a <= b THEN a ELSE b

\* a numpy image of h rows and w columns (3 channels)
ArrV(h, w) == [k |-> "img", v |-> [h |-> h, w |-> w]]

\* ndarray.size
Channels == 3
ArrSize(a) == a.v.h * a.v.w * Channels

\* what a splitter hands back: it raised (exc), or returned left and right
\* (NoneV or arrays) cut at column split of a region of width W
\* an exception leaves the splitter
Raised == [exc |-> TRUE, left |-> NoneV, right |-> NoneV, W |-> 0, split |-> 0]
\* mutant of NoBlocks: raising instead of returning (None, None)
NoBlocksRaises == Raised
\* separed.py lines 45, 78, 93: return None, None
NoBlocks == [exc |-> FALSE, left |-> NoneV, right |-> NoneV, W |-> 0, split |-> 0]
\* crop[:, :split] and crop[:, split:] by Python's slice rules
TwoBlocks(h, w, split) ==
    [exc |-> FALSE,
     left |-> ArrV(h, IF split < 0 THEN Max(0, w + split) ELSE Min(split, w)),
     right |-> ArrV(h, IF split < 0 THEN Min(0 - split, w) ELSE Max(0, w - split)),
     W |-> w, split |-> split]

\* np.sum(th > 0, axis=0) over the rows y0..y1 of the sheet: one count per column
ColProjection(img, y0, y1) ==
    [x \in 0..(img.W - 1) |-> Cardinality({y \in y0..y1 : Foreground(img, y, x)})]

\* np.sum(th > 0, axis=1) over the rows y0..y1: one count per row, indexed from 0
RowProjection(img, y0, y1) ==
    [r \in 0..(y1 - y0) |-> Cardinality({x \in 0..(img.W - 1) : Foreground(img, y0 + r, x)})]

\* np.argmin(a[lo:hi]) + lo: the first position of the least value, lo < hi
ArgMin(a, lo, hi) ==
    CHOOSE i \in lo..(hi - 1) :
        /\ \A j \in lo..(hi - 1) : a[i] <= a[j]
        /\ \A j \in lo..(i - 1) : a[j] > a[i]

\* np.min(a[lo:hi]) and np.max(a[lo:hi]), lo < hi
MinOf(a, lo, hi) == a[ArgMin(a, lo, hi)]
MaxOf(a, lo, hi) == CHOOSE v \in {a[i] : i \in lo..(hi - 1)} : \A j \in lo..(hi - 1) : a[j] <= v

\* sum of a[lo:hi]
RECURSIVE SumOf(_, _, _)
SumOf(a, lo, hi) == IF lo >= hi THEN 0 ELSE a[lo] + SumOf(a, lo + 1, hi)

\* separed.py line 224
WindowSize == 20

\* mutant of BestSplit: the window's first column instead of its centre
BestSplitWindowStart(proj, w_crop, min_col) ==
    LET lo == Max(0, min_col - WindowSize \div 2)
        hi == Min(w_crop - WindowSize, min_col + WindowSize \div 2)
        density == [i \in lo..(hi - 1) |-> SumOf(proj, i, i + WindowSize)]
    IN  IF lo >= hi THEN min_col
        ELSE ArgMin(density, lo, hi)

\* mutant of BestSplit: the window slides over the whole search band
BestSplitWholeBand(proj, w_crop, min_col) ==
    LET lo == Max(0, w_crop \div 2 - w_crop \div 6)
        hi == Min(w_crop, w_crop \div 2 + w_crop \div 6) - WindowSize + 1
        density == [i \in lo..(hi - 1) |-> SumOf(proj, i, i + WindowSize)]
    IN  IF lo >= hi THEN min_col
        ELSE ArgMin(density, lo, hi) + WindowSize \div 2

\* lines 224-233: the window loop.  Windows all hold WindowSize columns, so
\* their means compare as their sums do; the first least one wins.
BestSplit(proj, w_crop, min_col) ==
    LET lo == Max(0, min_col - WindowSize \div 2)
        hi == Min(w_crop - WindowSize, min_col + WindowSize \div 2)
        density == [i \in lo..(hi - 1) |-> SumOf(proj, i, i + WindowSize)]
    IN  IF lo >= hi THEN min_col
        ELSE ArgMin(density, lo, hi) + WindowSize \div 2

\* lines 187-239
detect_answer_sheet_blocks(img) ==
    IF ~img.readable THEN Raised                    \* None has no shape
    ELSE
    LET y_start == (img.H * 5) \div 100
        y_end   == (img.H * 95) \div 100
        h_crop  == y_end - y_start
        w_crop  == img.W
        proj    == ColProjection(img, y_start, y_end - 1)
        center  == w_crop \div 2
        search_range == w_crop \div 6
        start_search == Max(0, center - search_range)
        end_search   == Min(w_crop, center + search_range)
    IN  IF h_crop = 0 \/ w_crop = 0 THEN Raised     \* cvtColor of an empty crop
        ELSE IF start_search >= end_search THEN Raised   \* argmin of an empty slice
        ELSE LET min_col == ArgMin(proj, start_search, end_search)
             IN  TwoBlocks(h_crop, w_crop, BestSplit(proj, w_crop, min_col))

\* lines 242-280
detect_question_blocks_simple(img) ==
    IF ~img.readable THEN Raised
    ELSE
    LET y_start == (img.H * 35) \div 100
        y_end   == (img.H * 95) \div 100
        h_crop  == y_end - y_start
        w_crop  == img.W
        mid     == w_crop \div 2
    IN  \* lines 265-273: cvtColor raises on an empty crop, left or right
        IF h_crop = 0 \/ mid = 0 \/ w_crop - mid = 0 THEN Raised
        ELSE TwoBlocks(h_crop, w_crop, mid)

\* the members of a set of integers in increasing order (np.where(...)[0])
RECURSIVE Sorted(_)
Sorted(S) ==
    IF S = {} THEN << >>
    ELSE LET m == CHOOSE x \in S : \A y \in S : x <= y
         IN  << m >> \o Sorted(S \ {m})

\* separed.py line 50: diff > 10 starts a new run
GapRows == 10
\* separed.py line 7: default of min_block_height
MinBlockHeight == 100

\* lines 49-73: the runs of content rows as (start, end) pairs, in row order.
\* from is the position in cr where the current run starts.
RECURSIVE RowRuns(_, _, _)
RowRuns(cr, from, i) ==
    IF i >= Len(cr) THEN << << cr[from], cr[Len(cr)] >> >>
    ELSE IF cr[i + 1] - cr[i] > GapRows
         THEN << << cr[from], cr[i] >> >> \o RowRuns(cr, i + 1, i + 1)
         ELSE RowRuns(cr, from, i + 1)

\* lines 69-70: blocks.sort(key=height, reverse=True)[0]; the sort is stable,
\* so the first run of greatest height is taken
MainBlock(runs) ==
    runs[CHOOSE i \in 1..Len(runs) :
            /\ \A j \in 1..Len(runs) : runs[j][2] - runs[j][1] <= runs[i][2] - runs[i][1]
            /\ \A j \in 1..(i - 1) : runs[j][2] - runs[j][1] < runs[i][2] - runs[i][1]]

\* lines 110-132: the split column of a crop of width w_crop with column
\* projection proj (indexed from 0); exc when a slice is empty
SplitColumn(proj, w_crop) ==
    LET mid_region == w_crop \div 3
        mid_start  == w_crop \div 2 - mid_region \div 2
        mid_end    == w_crop \div 2 + mid_region \div 2
    IN  IF mid_start >= mid_end \/ mid_start = 0 \/ mid_end >= w_crop
        THEN [exc |-> TRUE, split |-> 0]          \* np.min / np.max of an empty slice
        ELSE LET min_mid   == MinOf(proj, mid_start, mid_end)
                 max_sides == Max(MaxOf(proj, 0, mid_start), MaxOf(proj, mid_end, w_crop))
             IN  IF max_sides > 0 /\ min_mid * 10 < max_sides * 3
                 THEN [exc |-> FALSE, split |-> ArgMin(proj, mid_start, mid_end)]
                 ELSE [exc |-> FALSE, split |-> w_crop \div 2]

\* lines 27-41: the content rows of the region of interest, numbered from its
\* first row, for a readable sheet
ContentRows(img) ==
    LET y_start == (img.H * 20) \div 100
        y_end   == (img.H * 95) \div 100
        row_sum == RowProjection(img, y_start, y_end - 1)
    IN  Sorted({r \in 0..(y_end - y_start - 1) : row_sum[r] * 100 > img.W * 5})

\* lines 5-184, with h_start_frac, h_end_frac, col_thresh_frac and
\* row_thresh_frac at their defaults
detect_question_blocks(img, min_block_height) ==
    IF ~img.readable THEN Raised                    \* cvtColor(None)
    ELSE
    LET W == img.W
        y_start == (img.H * 20) \div 100
        y_end   == (img.H * 95) \div 100
    IN  IF y_end - y_start = 0 THEN Raised          \* adaptiveThreshold of an empty region
        ELSE
        LET content_rows == ContentRows(img)
        IN  IF Len(content_rows) = 0 THEN NoBlocks
            ELSE
            LET main == MainBlock(RowRuns(content_rows, 1, 1))
                main_block_start == main[1]
                main_block_end   == main[2]
            IN  IF main_block_end - main_block_start < min_block_height THEN NoBlocks
                ELSE
                LET y0 == y_start + main_block_start
                    y1 == y_start + main_block_end
                    col_sum == ColProjection(img, y0, y1)
                    valid_cols == Sorted({x \in 0..(W - 1) :
                        col_sum[x] * 100 > (main_block_end - main_block_start) * 3})
                IN  IF Len(valid_cols) = 0 THEN NoBlocks
                    ELSE
                    LET x0 == valid_cols[1]
                        x1 == valid_cols[Len(valid_cols)]
                        h_crop == y1 - y0 + 1
                        w_crop == x1 - x0 + 1
                        col_projection == [j \in 0..(w_crop - 1) |-> col_sum[x0 + j]]
                        sp == SplitColumn(col_projection, w_crop)
                    IN  IF sp.exc THEN Raised
                        ELSE TwoBlocks(h_crop, w_crop, sp.split)

----------------------------------------------------------------------------
(* gemini_model.py, segment_image_blocks (lines 19-65): NoneV, or the list  *)
(* [left, right]                                                           *)

\* lines 31-47: the splitter the method selects; an unknown method raises
RunSplitter(img, meth) ==
    CASE meth = "optimized" -> detect_answer_sheet_blocks(img)
      [] meth = "advanced"  -> detect_question_blocks(img, MinBlockHeight)
      [] meth = "simple"    -> detect_question_blocks_simple(img)
      [] OTHER -> Raised

\* mutant of SegmentResult: the None check of lines 49-51 left out
SegmentResultUnchecked(res) ==
    IF res.exc THEN NoneV
    ELSE IF res.left.k = "img" /\ res.right.k = "img"
            /\ (ArrSize(res.left) = 0 \/ ArrSize(res.right) = 0) THEN NoneV
    ELSE ListV(<< res.left, res.right >>)

\* lines 49-65: what becomes of the splitter's result res
SegmentResult(res) ==
    IF res.exc THEN NoneV                                               \* lines 63-65
    ELSE IF res.left.k = "none" \/ res.right.k = "none" THEN NoneV      \* lines 49-51
    ELSE IF ArrSize(res.left) = 0 \/ ArrSize(res.right) = 0 THEN NoneV  \* lines 54-56
    ELSE ListV(<< res.left, res.right >>)

segment_image_blocks(img, meth) == SegmentResult(RunSplitter(img, meth))

----------------------------------------------------------------------------
(* What the vision service does with one call (gemini_model.py 171-182)    *)

Raises == [k |-> "raise", v |-> NoneV]     \* generate_content raises
Garbled == [k |-> "garbled", v |-> NoneV]  \* response.text is not JSON
Json(x) == [k |-> "json", v |-> x]         \* response.text is the JSON text of x

\* lines 171-188: what analyze_block_async returns once the call has ended
CallResult(outcome) ==
    CASE outcome.k = "json" -> outcome.v   \* json.loads(response.text)
      [] outcome.k = "garbled" -> NoneV    \* JSONDecodeError, line 180
      [] OTHER -> NoneV                    \* except Exception, line 186

\* line 77: image_block is None or image_block.size == 0
InvalidBlock(b) == b.k = "none" \/ ArrSize(b) = 0

\* gemini_model.py line 198: enumerate(segmented_blocks, start=1)
BlockIdStart == 1
BlockId(k) == k - 1 + BlockIdStart

----------------------------------------------------------------------------
(* The state machine *)

NoReply == [status |-> 0, body |-> NoneV]
Reply(status, body) == [status |-> status, body |-> body]
ErrorBody(msg) == DictV(<< Pair("error", TextV(msg)) >>)
SuccessBody(result) ==
    DictV(<< Pair("status", TextV("success")), Pair("blocks", ListV(result)) >>)

\* mutant of EmptyResult: a bare return
EmptyResultNone == NoneV

\* gemini_model.py line 194: return []
EmptyResult == ListV(<< >>)

NumBlocks == IF blocks.k = "list" THEN Len(blocks.v) ELSE 0

\* gemini_model.py 190-200, up to the await: an empty or absent list returns
\* [] at once; otherwise one task per block is handed to the event loop, which
\* starts them in creation order
EnterProcess(b, donePc) ==
    /\ blocks' = b
    /\ IF ~Truthy(b)
       THEN /\ responses' = EmptyResult
            /\ pc' = donePc
            /\ UNCHANGED << task, ready, taskResult >>
       ELSE /\ task' = [k \in 1..Len(b.v) |-> "pending"]
            /\ ready' = [k \in 1..Len(b.v) |-> k]
            /\ taskResult' = [k \in 1..Len(b.v) |-> NoneV]
            /\ pc' = "loop"
            /\ UNCHANGED responses

\* app.py 26-50: the handler up to asyncio.run
AnalyzeStart ==
    /\ entry = "analyze" /\ pc = "start"
    /\ IF request.auth # "ok"
       THEN /\ http' = Reply(401, ErrorBody("Chave de API"))
            /\ pc' = "done"
            /\ UNCHANGED << cut, segmented, blocks, task, ready, taskResult, responses >>
       ELSE IF ~request.hasImage
       THEN /\ http' = Reply(400, ErrorBody("Nenhuma imagem enviada."))
            /\ pc' = "done"
            /\ UNCHANGED << cut, segmented, blocks, task, ready, taskResult, responses >>
       ELSE LET seg == segment_image_blocks(image, "optimized")
            IN  /\ cut' = RunSplitter(image, "optimized")
                /\ segmented' = seg
                /\ IF ~Truthy(seg)
                   THEN /\ http' = Reply(422, ErrorBody("Falha na segmentacao da imagem."))
                        /\ pc' = "done"
                        /\ UNCHANGED << blocks, task, ready, taskResult, responses >>
                   ELSE /\ EnterProcess(seg, "done")
                        /\ UNCHANGED http
    /\ UNCHANGED << entry, request, method, image, inBlocks, serviceReply, callLog >>

\* a direct call of process_blocks_async(inBlocks), as main() makes
ProcessStart ==
    /\ entry = "process" /\ pc = "start"
    /\ EnterProcess(inBlocks, "done")
    /\ UNCHANGED << entry, request, method, image, inBlocks, serviceReply,
                    cut, segmented, callLog, http >>

\* a direct call of segment_image_blocks(image_path, method), as main() makes
SegmentCall ==
    /\ entry = "segment" /\ pc = "start"
    /\ cut' = RunSplitter(image, method)
    /\ segmented' = segment_image_blocks(image, method)
    /\ pc' = "done"
    /\ UNCHANGED << entry, request, method, image, inBlocks, serviceReply,
                    blocks, task, ready, taskResult, callLog, responses, http >>

\* gemini_model.py line 171: generate_content is called without await, so the
\* one thread of the event loop is held until the call ends
LoopThreadFree == \A j \in DOMAIN task : task[j] # "calling"

\* gemini_model.py 67-175: the event loop starts task k, which runs up to the
\* service call (or returns None for an invalid block, line 77-79)
TaskStart(k) ==
    /\ pc = "loop" /\ ready # << >> /\ k = Head(ready)
    /\ LoopThreadFree
    /\ ready' = Tail(ready)
    /\ IF InvalidBlock(blocks.v[k])
       THEN /\ task' = [task EXCEPT ![k] = "done"]
            /\ taskResult' = [taskResult EXCEPT ![k] = NoneV]
            /\ UNCHANGED callLog
       ELSE /\ task' = [task EXCEPT ![k] = "calling"]
            /\ callLog' = Append(callLog, BlockId(k))
            /\ UNCHANGED taskResult
    /\ UNCHANGED << entry, request, method, image, inBlocks, serviceReply, pc,
                    cut, segmented, blocks, responses, http >>

\* gemini_model.py 171-188: the call of task k ends and the task returns
CallReturn(k) ==
    /\ pc = "loop" /\ k \in DOMAIN task /\ task[k] = "calling"
    /\ task' = [task EXCEPT ![k] = "done"]
    /\ taskResult' = [taskResult EXCEPT ![k] = CallResult(serviceReply[k])]
    /\ UNCHANGED << entry, request, method, image, inBlocks, serviceReply, pc,
                    cut, segmented, blocks, ready, callLog, responses, http >>

AllTasksDone == \A k \in DOMAIN task : task[k] = "done"

\* mutant of Gather: the results listed last task first
GatherReversed(results) ==
    ListV([k \in 1..Len(results) |-> results[Len(results) + 1 - k]])

\* gemini_model.py line 200: asyncio.gather(*tasks) lists the results in the
\* order of its arguments
Gather(results) == ListV([k \in 1..Len(results) |-> results[k]])

\* the direct call returns
ProcessReturn ==
    /\ entry = "process" /\ pc = "loop" /\ AllTasksDone
    /\ responses' = Gather(taskResult)
    /\ pc' = "done"
    /\ UNCHANGED << entry, request, method, image, inBlocks, serviceReply,
                    cut, segmented, blocks, task, ready, taskResult, callLog, http >>

\* app.py 50-93: asyncio.run returns and the handler builds its reply
AnalyzeFinish ==
    /\ entry = "analyze" /\ pc = "loop" /\ AllTasksDone
    /\ LET resps == Gather(taskResult)
           res   == BuildResult(resps.v, 1)
       IN  /\ responses' = resps
           /\ http' = IF res.exc THEN Reply(500, ErrorBody("str(e)"))
                      ELSE Reply(200, SuccessBody(res.val))
    /\ pc' = "done"
    /\ UNCHANGED << entry, request, method, image, inBlocks, serviceReply,
                    cut, segmented, blocks, task, ready, taskResult, callLog >>

Next ==
    \/ AnalyzeStart
    \/ ProcessStart
    \/ SegmentCall
    \/ \E k \in 1..MaxBlocks : TaskStart(k)
    \/ \E k \in 1..MaxBlocks : CallReturn(k)
    \/ ProcessReturn
    \/ AnalyzeFinish

\* the state after the inputs inp = [entry, request, method, image, inBlocks,
\* serviceReply] are fixed and before the call is made
InitWith(inputs) ==
    \E inp \in inputs :
        /\ entry = inp.entry
        /\ request = inp.request
        /\ method = inp.method
        /\ image = inp.image
        /\ inBlocks = inp.inBlocks
        /\ serviceReply = inp.serviceReply
        /\ pc = "start"
        /\ cut = NoBlocks
        /\ segmented = NoneV
        /\ blocks = NoneV
        /\ task = << >>
        /\ ready = << >>
        /\ taskResult = << >>
        /\ callLog = << >>
        /\ responses = NoneV
        /\ http = NoReply

----------------------------------------------------------------------------
(* Inputs *)

MaxW == 24          \* widest sheet
ShortH == 2         \* sheets of 1..ShortH rows
TallH == 140        \* and one tall enough for min_block_height

Unreadable == [readable |-> FALSE, H |-> 0, W |-> 0, rows |-> {}, cols |-> {}]

\* rows that carry marks: none, all, every GapRows-th / (GapRows+1)-th, all
\* but a stretch of GapRows rows in the middle, or the first MinBlockHeight
\* (+ 1) rows from a fifth of the height on
RowsFamily(h) ==
    {{}} \cup {{y \in 0..(h - 1) : y % st = 0} : st \in {1, GapRows, GapRows + 1}}
         \cup {(0..(h - 1)) \ ((h \div 2)..(h \div 2 + GapRows - 1))}
         \cup {{y \in 0..(h - 1) : h \div 5 <= y /\ y < h \div 5 + len} :
                  len \in {MinBlockHeight, MinBlockHeight + 1}}

\* columns that carry marks: none, all, all but one, or just one
ColsFamily(w) ==
    {{}, 0..(w - 1)} \cup {(0..(w - 1)) \ {g} : g \in 0..(w - 1)}
                     \cup {{g} : g \in 0..(w - 1)}

Sheets(hs, ws) ==
    UNION {UNION {{[readable |-> TRUE, H |-> h, W |-> w, rows |-> r, cols |-> c] :
                     r \in RowsFamily(h), c \in ColsFamily(w)} : w \in ws} : h \in hs}

AllSheets == {Unreadable} \cup Sheets((1..ShortH) \cup {TallH}, 1..MaxW)

\* a readable sheet the handler's splitter cuts in two
GoodSheet == [readable |-> TRUE, H |-> ShortH, W |-> 8, rows |-> {0}, cols |-> 0..7 \ {4}]
FewSheets == {Unreadable, GoodSheet, [GoodSheet EXCEPT !.W = 5, !.cols = 0..4],
              [GoodSheet EXCEPT !.H = 1]}

WideW == 66         \* widest of the wide sheets

\* columns without marks on a wide sheet: up to two single columns, or a single
\* column and a run of three
GapsFamily(w) ==
    {{}} \cup {{g, h} : g \in 0..(w - 1), h \in 0..(w - 1)}
         \cup {{g, h, h + 1, h + 2} : g \in 0..(w - 1), h \in 0..(w - 3)}

\* sheets wide enough for the window loop of detect_answer_sheet_blocks, one
\* marked row, marks in every column but the gaps
WideSheets ==
    UNION {{[readable |-> TRUE, H |-> ShortH, W |-> w, rows |-> {0},
             cols |-> (0..(w - 1)) \ gaps] : gaps \in GapsFamily(w)} :
               w \in {2 * WindowSize, WideW}}

Methods == {"optimized", "advanced", "simple", "fast"}

KeyChars == {"0", "1", "a", "-"}
AnsChars == {"A", "b", ","}

\* the strings over chars of length 0..n
RECURSIVE Strings(_, _)
Strings(chars, n) ==
    IF n = 0 THEN {<< >>}
    ELSE LET shorter == Strings(chars, n - 1)
         IN  shorter \cup {<< c >> \o t : c \in chars, t \in {u \in shorter : Len(u) = n - 1}}

Item(q, a) == DictV(<< Pair("question", q), Pair("answer", a) >>)
Raw(items, valid) ==
    DictV(<< Pair("block_id", IntV(1)),
             Pair("questions_marked_processed", items),
             Pair("is_valid_img", valid) >>)

GoodItem == Item(StrV(<< "0", "1" >>), StrV(<< "B" >>))
GoodRaw == Raw(ListV(<< GoodItem >>), BoolV(TRUE))

\* the raw results of the service that differ in shape
ShapedRaws ==
    { NoneV, DictV(<< >>), IntV(5), BoolV(TRUE), StrV(<< "a" >>),
      ListV(<< StrV(<< "1", ":", "A" >>) >>),
      GoodRaw,
      Raw(ListV(<< >>), BoolV(FALSE)),
      Raw(ListV(<< GoodItem, Item(StrV(<< "a" >>), NoneV) >>), BoolV(TRUE)),
      DictV(<< Pair("questions_marked_processed", ListV(<< GoodItem >>)) >>),
      DictV(<< Pair("is_valid_img", BoolV(TRUE)) >>),
      Raw(ListV(<< StrV(<< "1", ":", "A" >>) >>), BoolV(TRUE)),
      Raw(ListV(<< Item(IntV(1), StrV(<< "A" >>)) >>), BoolV(TRUE)),
      Raw(ListV(<< DictV(<< Pair("answer", StrV(<< "A" >>)) >>) >>), BoolV(TRUE)),
      Raw(NoneV, BoolV(TRUE)),
      Raw(DictV(<< Pair("1", StrV(<< "A" >>)) >>), BoolV(TRUE)) }

ShapedOutcomes == {Raises, Garbled} \cup {Json(x) : x \in ShapedRaws}
FewOutcomes == {Raises, Garbled, Json(GoodRaw)}

\* raw results with one or two items whose key or answer ranges over the strings
KeyValues == {StrV(t) : t \in Strings(KeyChars, MaxKeyLen)}
AnsValues == {NoneV} \cup {StrV(t) : t \in Strings(AnsChars, MaxAnsLen)}
VariedItems == {Item(q, StrV(<< "B" >>)) : q \in KeyValues}
               \cup {Item(StrV(<< "0", "1" >>), a) : a \in AnsValues}
               \cup {DictV(<< Pair("answer", StrV(<< "A" >>)) >>),
                     DictV(<< Pair("question", StrV(<< "1" >>)) >>)}
\* k copies of GoodItem
GoodItems(k) == [i \in 1..k |-> GoodItem]
\* lists of up to n items: one varied item among GoodItems, or no item at all
ItemLists(n) ==
    {<< >>} \cup {GoodItems(before) \o << it >> \o GoodItems(after) :
                    it \in VariedItems,
                    before \in 0..(n - 1), after \in 0..(n - 1)}
VariedOutcomes ==
    {Json(Raw(ListV(l), BoolV(TRUE))) : l \in {u \in ItemLists(MaxItems) : Len(u) <= MaxItems}}

\* block responses as the handler itself puts them out (lines 80-85), handed
\* back as raw results
NormalizedOutcomes ==
    {Json(DictV(<< Pair("questions_marked_processed",
                        ListV(NormalizeItems(l).val)),
                   Pair("is_valid_img", BoolV(TRUE)) >>)) :
        l \in {u \in ItemLists(MaxItems) : Len(u) <= MaxItems}}

OkRequest == [auth |-> "ok", hasImage |-> TRUE]
Requests == {[auth |-> a, hasImage |-> i] : a \in {"missing", "wrong", "ok"}, i \in BOOLEAN}

\* block lists of a direct process_blocks_async call: None, or up to MaxBlocks
\* blocks, each None, an empty array or an image
BlockValues == {NoneV, ArrV(0, 4), ArrV(1, 4)}
RECURSIVE BlockLists(_)
BlockLists(n) ==
    IF n = 0 THEN {<< >>}
    ELSE LET shorter == BlockLists(n - 1)
         IN  shorter \cup {<< b >> \o t : b \in BlockValues, t \in {u \in shorter : Len(u) = n - 1}}

AnalyzeInputs(requests, sheets, outcomes1, outcomes2) ==
    {[entry |-> "analyze", request |-> rq, method |-> "optimized", image |-> im,
      inBlocks |-> NoneV, serviceReply |-> << o1, o2 >>] :
        rq \in requests, im \in sheets, o1 \in outcomes1, o2 \in outcomes2}

ProcessInputs(outcomes) ==
    {[entry |-> "process", request |-> OkRequest, method |-> "optimized",
      image |-> Unreadable, inBlocks |-> NoneV, serviceReply |-> << >>]}
    \cup UNION {{[entry |-> "process", request |-> OkRequest, method |-> "optimized",
                  image |-> Unreadable, inBlocks |-> ListV(l), serviceReply |-> sr] :
                    sr \in [1..Len(l) -> outcomes]} : l \in BlockLists(MaxBlocks)}

SegmentInputs(sheets) ==
    {[entry |-> "segment", request |-> OkRequest, method |-> m, image |-> im,
      inBlocks |-> NoneV, serviceReply |-> << >>] : m \in Methods, im \in sheets}

\* a few inputs of every entry point
CoreInputs ==
    AnalyzeInputs(Requests, FewSheets, {Json(GoodRaw)}, {Json(GoodRaw)})
    \cup ProcessInputs({Raises, Json(GoodRaw)})
    \cup SegmentInputs(FewSheets)

\* the request pipeline: every shape of reply, every block list
Init == InitWith(CoreInputs
                 \cup AnalyzeInputs({OkRequest}, FewSheets, ShapedOutcomes, ShapedOutcomes)
                 \cup ProcessInputs(FewOutcomes))
Spec == Init /\ [][Next]_vars

\* segmentation: every sheet, every method
InitSeg == InitWith(CoreInputs
                    \cup AnalyzeInputs({OkRequest}, AllSheets, {Json(GoodRaw)}, {Json(GoodRaw)})
                    \cup SegmentInputs(AllSheets))
SpecSeg == InitSeg /\ [][Next]_vars

\* normalisation: every key and answer
InitNorm == InitWith(CoreInputs
                     \cup AnalyzeInputs({OkRequest}, {GoodSheet}, VariedOutcomes, {Raises, Json(GoodRaw)}))
SpecNorm == InitNorm /\ [][Next]_vars

\* valley splitting of wide sheets
InitValley == InitWith(CoreInputs
                       \cup {inp \in SegmentInputs(WideSheets) : inp.method = "optimized"})
SpecValley == InitValley /\ [][Next]_vars

\* normalisation of what normalisation put out
InitIdem == InitWith(CoreInputs
                     \cup AnalyzeInputs({OkRequest}, {GoodSheet}, NormalizedOutcomes, {Raises}))
SpecIdem == InitIdem /\ [][Next]_vars

----------------------------------------------------------------------------
(* Properties of the request pipeline (Spec) *)

\* the handler went through the fan-out and has answered
FannedOut == entry = "analyze" /\ pc = "done" /\ blocks.k = "list"

\* the "blocks" list of a 200 reply
ReportBlocks == Lookup(http.body, "blocks").v

IsErrorEntry(e, i) == e = ErrorEntry(i)
IsResponseEntry(e, i) ==
    /\ e.k = "dict" /\ HasKey(e, "block") /\ Lookup(e, "block") = IntV(i)
    /\ HasKey(e, "response") /\ ~HasKey(e, "error")
    /\ Lookup(e, "response").k = "dict"
    /\ HasKey(Lookup(e, "response"), "questions_marked_processed")
    /\ HasKey(Lookup(e, "response"), "is_valid_img")

\* block k fails: its call raises, its reply is not JSON, or it is empty / None
FailingBlock(k) ==
    InvalidBlock(blocks.v[k]) \/ serviceReply[k].k \in {"raise", "garbled"}

\* a reply that failed, or a JSON object with a list under
\* questions_marked_processed and a value under is_valid_img
ObjectReply(o) ==
    \/ o.k \in {"raise", "garbled"}
    \/ /\ o.k = "json" /\ o.v.k = "dict"
       /\ HasKey(o.v, "questions_marked_processed")
       /\ Lookup(o.v, "questions_marked_processed").k = "list"
       /\ HasKey(o.v, "is_valid_img")

\* C1: whatever subset of the blocks fails, the handler answers with a report
\* of one entry per block: an error entry for each failing block, a populated
\* response entry for every other one.  (Stated for replies that failed or are
\* JSON objects carrying both fields.)
C1_FailureIsolated ==
    (FannedOut /\ \A k \in 1..NumBlocks : ObjectReply(serviceReply[k])) =>
        /\ responses.k = "list" /\ Len(responses.v) = NumBlocks
        /\ http.status = 200
        /\ IF http.status # 200 THEN FALSE
           ELSE /\ Len(ReportBlocks) = NumBlocks
                /\ \A k \in 1..NumBlocks :
                      IF FailingBlock(k) THEN IsErrorEntry(ReportBlocks[k], k)
                      ELSE IsResponseEntry(ReportBlocks[k], k)

\* an item of questions_marked_processed that is no {question, answer} object
\* or whose question is not a string
MalformedItem(item) ==
    \/ item.k # "dict"
    \/ HasKey(item, "question") /\ Lookup(item, "question").k # "str"

\* a raw result (a JSON object) that lacks a required field or whose list is
\* malformed
InvalidRaw(r) ==
    /\ r.k = "dict"
    /\ \/ ~HasKey(r, "questions_marked_processed")
       \/ ~HasKey(r, "is_valid_img")
       \/ Lookup(r, "questions_marked_processed").k # "list"
       \/ \E i \in 1..Len(Lookup(r, "questions_marked_processed").v) :
             MalformedItem(Lookup(r, "questions_marked_processed").v[i])

\* C2: a block whose raw result lacks questions_marked_processed or
\* is_valid_img, or whose list is malformed, gets an error entry of its own;
\* the report still has one entry per block and the request is not aborted.
C2_ValidationBlockLocal ==
    FannedOut =>
        \A k \in 1..NumBlocks :
            (serviceReply[k].k = "json" /\ InvalidRaw(serviceReply[k].v)) =>
                /\ http.status = 200
                /\ IF http.status # 200 THEN FALSE
                   ELSE /\ Len(ReportBlocks) = NumBlocks
                        /\ IsErrorEntry(ReportBlocks[k], k)

\* the ordinals of the blocks b[from..] that are sent to the service, in order
RECURSIVE CalledOrdinals(_, _)
CalledOrdinals(b, from) ==
    IF from > Len(b) THEN << >>
    ELSE (IF InvalidBlock(b[from]) THEN << >> ELSE << from >>) \o CalledOrdinals(b, from + 1)

\* C3: process_blocks_async returns one result per block, the k-th being that
\* of the k-th block, which was sent with ordinal k; the report entry built
\* from it carries block = k.
C3_OrderAndLength ==
    (pc = "done" /\ Truthy(blocks)) =>
        /\ responses.k = "list" /\ Len(responses.v) = Len(blocks.v)
        /\ \A k \in 1..Len(blocks.v) :
              responses.v[k] = IF InvalidBlock(blocks.v[k]) THEN NoneV
                               ELSE CallResult(serviceReply[k])
        /\ callLog = CalledOrdinals(blocks.v, 1)
        /\ (entry = "analyze" /\ http.status = 200) =>
              /\ Len(ReportBlocks) = Len(blocks.v)
              /\ \A j \in 1..Len(ReportBlocks) : Lookup(ReportBlocks[j], "block") = IntV(j)

\* witness of C3: a finished request whose left block failed and whose right
\* block did not; the report lists them in that order
C3_Witness ==
    /\ FannedOut /\ http.status = 200
    /\ serviceReply[1] = Raises /\ serviceReply[2] = Json(GoodRaw)
    /\ IsErrorEntry(ReportBlocks[1], 1) /\ IsResponseEntry(ReportBlocks[2], 2)

\* C4: the calls of a batch are issued concurrently (while the call of block
\* k is in flight the call of block k+1 can be issued), and
\* process_blocks_async returns only after every call has ended.
C4_ConcurrentFanOut ==
    /\ \A k \in DOMAIN task :
          (/\ task[k] = "calling"
           /\ (k + 1) \in DOMAIN task
           /\ task[k + 1] = "pending"
           /\ ~InvalidBlock(blocks.v[k + 1])) => ENABLED TaskStart(k + 1)
    /\ (Truthy(blocks) /\ responses.k = "list") => AllTasksDone

\* C5: given an empty or absent block list, process_blocks_async returns an
\* empty list, creates no task and makes no service call.
C5_EmptyBatch ==
    (entry = "process" /\ ~Truthy(inBlocks)) =>
        /\ callLog = << >>
        /\ task = << >>
        /\ pc \in {"start", "done"}
        /\ pc = "done" => responses = ListV(<< >>)

\* witness of C5: the direct call with an empty list has returned
C5_Witness == entry = "process" /\ inBlocks = ListV(<< >>) /\ pc = "done"

----------------------------------------------------------------------------
(* Properties of segmentation (SpecSeg) *)

\* C6: whenever a splitter returns two blocks of a region of width W cut at
\* column s, 0 < s < W, the left block holds the s columns [0, s) and the right
\* block the W - s columns [s, W): no overlap, no gap, widths summing to W.
C6_SplitPartition ==
    (~cut.exc /\ cut.left.k = "img" /\ cut.right.k = "img") =>
        /\ 0 < cut.split /\ cut.split < cut.W
        /\ cut.left.v.w = cut.split
        /\ cut.right.v.w = cut.W - cut.split
        /\ cut.left.v.w + cut.right.v.w = cut.W
        /\ cut.left.v.h = cut.right.v.h

\* witness of C6: the valley splitter cut a region wide enough for its
\* window loop to run
C6_Witness ==
    /\ entry = "segment" /\ method = "optimized" /\ pc = "done"
    /\ cut.left.k = "img" /\ cut.W > WindowSize + 1
    /\ cut.split # cut.W \div 2

\* segment_image_blocks has been called
Segmenting ==
    /\ pc # "start"
    /\ entry = "segment" \/ (entry = "analyze" /\ request = OkRequest)

KnownMethods == {"optimized", "advanced", "simple"}

\* C7: segment_image_blocks returns None or a list of exactly two blocks of
\* non-zero area; it returns None whenever the splitter raised, located no
\* region, left a side without columns, or the method is unknown; and on None
\* the handler answers 422 without any service call.
C7_SegmentationAbort ==
    /\ Segmenting =>
          \/ segmented = NoneV
          \/ /\ segmented.k = "list" /\ Len(segmented.v) = 2
             /\ \A i \in 1..2 : segmented.v[i].k = "img" /\ ArrSize(segmented.v[i]) > 0
    /\ (Segmenting /\ (\/ cut.exc
                       \/ cut.left.k = "none" \/ cut.right.k = "none"
                       \/ cut.left.v.w = 0 \/ cut.right.v.w = 0)) => segmented = NoneV
    /\ (Segmenting /\ entry = "segment" /\ method \notin KnownMethods) => segmented = NoneV
    /\ (Segmenting /\ entry = "analyze" /\ segmented = NoneV) =>
          /\ pc = "done" /\ http.status = 422
          /\ callLog = << >> /\ task = << >>

\* witness of C7: the handler answered 422 for a readable sheet too narrow to
\* be split
C7_Witness ==
    /\ entry = "analyze" /\ pc = "done" /\ image.readable
    /\ cut.exc /\ segmented = NoneV /\ http.status = 422

\* no foreground pixel in the rows [H*lo/100, H*hi/100) of the sheet
RoiBlank(img, lo, hi) ==
    \A y \in ((img.H * lo) \div 100)..((img.H * hi) \div 100 - 1) :
        \A x \in 0..(img.W - 1) : ~Foreground(img, y, x)

\* C8 as claimed: a blank region of interest yields no blocks, for the
\* handler's pipeline as for the profile-based locator.
C8_BlankRoiNoBlocks ==
    (/\ Segmenting /\ image.readable
     /\ \/ entry = "analyze" /\ RoiBlank(image, 5, 95)
        \/ entry = "segment" /\ method = "advanced" /\ RoiBlank(image, 20, 95)) =>
        segmented = NoneV

\* C8 as amended: for the profile-based locator a blank region of interest
\* yields (None, None), without raising when the region has rows, and
\* segment_image_blocks returns None.
C8_BlankRoiProfileLocator ==
    (/\ Segmenting /\ image.readable
     /\ entry = "segment" /\ method = "advanced" /\ RoiBlank(image, 20, 95)) =>
        /\ segmented = NoneV
        /\ cut.left = NoneV /\ cut.right = NoneV
        /\ (image.H * 95) \div 100 > (image.H * 20) \div 100 => ~cut.exc

\* witness of C8: the profile-based locator ran on a tall sheet with marked
\* columns but no marked row
C8_Witness ==
    /\ entry = "segment" /\ method = "advanced" /\ pc = "done"
    /\ image.readable /\ image.H = TallH /\ image.rows = {} /\ image.cols # {}
    /\ cut = NoBlocks

----------------------------------------------------------------------------
(* Properties of normalisation (SpecNorm) *)

\* block k's reply is a JSON object whose questions_marked_processed is a list
\* of objects with string (or absent) question keys
StringKeyed(k) ==
    /\ serviceReply[k].k = "json" /\ serviceReply[k].v.k = "dict"
    /\ HasKey(serviceReply[k].v, "questions_marked_processed")
    /\ Lookup(serviceReply[k].v, "questions_marked_processed").k = "list"
    /\ \A i \in 1..Len(Lookup(serviceReply[k].v, "questions_marked_processed").v) :
          LET item == Lookup(serviceReply[k].v, "questions_marked_processed").v[i]
          IN  item.k = "dict" /\ Get(item, "question", StrV(<< >>)).k = "str"

RawItems(k) == Lookup(serviceReply[k].v, "questions_marked_processed").v
OutItems(k) ==
    Lookup(Lookup(ReportBlocks[k], "response"), "questions_marked_processed").v

\* the claim's reading of a key: leading zeros off, "" counting as "0", then
\* the integer the rest denotes if it denotes one
LeadingZeros(key) ==
    CHOOSE n \in 0..Len(key) :
        /\ \A j \in 1..n : key[j] = "0"
        /\ n = Len(key) \/ key[n + 1] # "0"
Remainder(key) ==
    LET rest == SubSeq(key, LeadingZeros(key) + 1, Len(key))
    IN  IF rest = << >> THEN << "0" >> ELSE rest
Unsigned(t) == IF Len(t) > 0 /\ t[1] = "-" THEN SubSeq(t, 2, Len(t)) ELSE t
DenotesInteger(t) ==
    Len(Unsigned(t)) > 0 /\ \A j \in 1..Len(Unsigned(t)) : IsDigit(Unsigned(t)[j])
RECURSIVE Pow10(_)
Pow10(n) == IF n = 0 THEN 1 ELSE 10 * Pow10(n - 1)
RECURSIVE PlaceSum(_, _)
PlaceSum(ds, j) ==
    IF j > Len(ds) THEN 0
    ELSE DigitVal(ds[j]) * Pow10(Len(ds) - j) + PlaceSum(ds, j + 1)
Denoted(t) ==
    IF Len(t) > 0 /\ t[1] = "-" THEN 0 - PlaceSum(Unsigned(t), 1)
    ELSE PlaceSum(t, 1)
ClaimedQuestion(key) ==
    IF DenotesInteger(Remainder(key)) THEN IntV(Denoted(Remainder(key))) ELSE StrV(key)

\* C9: a string key is normalised to the integer its zero-stripped remainder
\* denotes, or to the key itself when the remainder denotes none; and the
\* block and the request do not fail over it.
C9_QuestionKey ==
    \A k \in 1..NumBlocks :
        (FannedOut /\ StringKeyed(k)) =>
            /\ http.status = 200
            /\ IF http.status # 200 THEN FALSE
               ELSE /\ IsResponseEntry(ReportBlocks[k], k)
                    /\ Len(OutItems(k)) = Len(RawItems(k))
                    /\ \A i \in 1..Len(RawItems(k)) :
                          Lookup(OutItems(k)[i], "question") =
                              ClaimedQuestion(Get(RawItems(k)[i], "question", StrV(<< >>)).v)

\* witness of C9: the key "0a" went through the handler and came out unchanged
C9_Witness ==
    /\ FannedOut /\ http.status = 200 /\ StringKeyed(1)
    /\ Len(RawItems(1)) > 0
    /\ Get(RawItems(1)[1], "question", NoneV) = StrV(<< "0", "a" >>)
    /\ Lookup(OutItems(1)[1], "question") = StrV(<< "0", "a" >>)

\* the lower-case form of an answer; the capitals among the answers drawn
\* are A and B
Lowered(t) ==
    [j \in 1..Len(t) |-> CASE t[j] = "A" -> "a" [] t[j] = "B" -> "b" [] OTHER -> t[j]]

\* C10 as claimed: a single-letter answer is lower-cased, a null or absent
\* answer and a longer string are output unchanged, one entry per raw pair in
\* the order received.
C10_OnlySingleLetterLowered ==
    \A k \in 1..NumBlocks :
        (FannedOut /\ StringKeyed(k) /\ http.status = 200) =>
            /\ Len(OutItems(k)) = Len(RawItems(k))
            /\ \A i \in 1..Len(RawItems(k)) :
                  LET a == Get(RawItems(k)[i], "answer", NoneV)
                  IN  Lookup(OutItems(k)[i], "answer") =
                          IF a.k = "str" /\ Len(a.v) = 1 THEN StrV(Lowered(a.v)) ELSE a

\* C10 as amended: every string answer, of one letter or more, is lower-cased;
\* a null or absent answer is output unchanged; one entry per raw pair in the
\* order received.
C10_AnswersLowered ==
    \A k \in 1..NumBlocks :
        (FannedOut /\ StringKeyed(k) /\ http.status = 200) =>
            /\ Len(OutItems(k)) = Len(RawItems(k))
            /\ \A i \in 1..Len(RawItems(k)) :
                  LET a == Get(RawItems(k)[i], "answer", NoneV)
                  IN  /\ Lookup(OutItems(k)[i], "answer") =
                            IF a.k = "str" THEN StrV(Lowered(a.v)) ELSE a
                      /\ Lookup(OutItems(k)[i], "question") =
                            ClaimedQuestion(Get(RawItems(k)[i], "question", StrV(<< >>)).v)

\* witness of C10: the answer "A,b" of a second item came out as "a,b", after
\* the first item's
C10_Witness ==
    /\ FannedOut /\ http.status = 200 /\ StringKeyed(1)
    /\ Len(RawItems(1)) = 2
    /\ Get(RawItems(1)[2], "answer", NoneV) = StrV(<< "A", ",", "b" >>)
    /\ Lookup(OutItems(1)[2], "answer") = StrV(<< "a", ",", "b" >>)
    /\ Lookup(OutItems(1)[1], "answer") = StrV(<< "b" >>)

\* block k's reply is an already-normalised block response: a list of
\* {question, answer} objects whose questions are integers or strings that
\* denote no integer, and whose answers are null or lower-case strings
AlreadyNormalized(k) ==
    /\ serviceReply[k].k = "json" /\ serviceReply[k].v.k = "dict"
    /\ HasKey(serviceReply[k].v, "questions_marked_processed")
    /\ HasKey(serviceReply[k].v, "is_valid_img")
    /\ Lookup(serviceReply[k].v, "questions_marked_processed").k = "list"
    /\ \A i \in 1..Len(RawItems(k)) :
          LET item == RawItems(k)[i]
          IN  /\ item.k = "dict" /\ HasKey(item, "question") /\ HasKey(item, "answer")
              /\ \/ Lookup(item, "question").k = "int"
                 \/ /\ Lookup(item, "question").k = "str"
                    /\ ~DenotesInteger(Remainder(Lookup(item, "question").v))
              /\ \/ Lookup(item, "answer") = NoneV
                 \/ /\ Lookup(item, "answer").k = "str"
                    /\ Lowered(Lookup(item, "answer").v) = Lookup(item, "answer").v

\* C11: normalising an already-normalised block response again succeeds and
\* yields the same {question, answer} pairs and the same is_valid_img flag.
C11_Idempotent ==
    \A k \in 1..NumBlocks :
        (FannedOut /\ AlreadyNormalized(k)) =>
            /\ http.status = 200
            /\ IF http.status # 200 THEN FALSE
               ELSE /\ IsResponseEntry(ReportBlocks[k], k)
                    /\ OutItems(k) = RawItems(k)
                    /\ Lookup(Lookup(ReportBlocks[k], "response"), "is_valid_img")
                          = Lookup(serviceReply[k].v, "is_valid_img")

----------------------------------------------------------------------------
(* Properties of valley splitting (SpecValley) *)

\* detect_answer_sheet_blocks returned two blocks for the sheet
ValleySplit ==
    /\ entry = "segment" /\ method = "optimized" /\ pc = "done"
    /\ ~cut.exc /\ cut.left.k = "img"

\* the column projection profile of the sheet's crop, and its search band
Profile == ColProjection(image, (image.H * 5) \div 100, (image.H * 95) \div 100 - 1)
BandStart == image.W \div 2 - image.W \div 6
BandEnd == image.W \div 2 + image.W \div 6
WindowMass(i) == SumOf(Profile, i, i + WindowSize)

\* s is the centre of a window that lies inside the band and is least among
\* the windows inside the band
BestWindowInsideBand(s) ==
    \E i \in BandStart..(BandEnd - WindowSize) :
        /\ s = i + WindowSize \div 2
        /\ \A j \in BandStart..(BandEnd - WindowSize) : WindowMass(i) <= WindowMass(j)

\* s is the centre of a window centred inside the band and least among the
\* windows centred inside the band
BestWindowCentredInBand(s) ==
    LET starts == {i \in 0..(image.W - WindowSize) :
                      i + WindowSize \div 2 \in BandStart..BandEnd}
    IN  \E i \in starts :
            /\ s = i + WindowSize \div 2
            /\ \A j \in starts : WindowMass(i) <= WindowMass(j)

\* C13 as claimed: when the band holds a window, the split column is the
\* centre of a window of least mean among the window positions of the band
\* (windows lying inside the band, or windows centred in it).
C13_BestWindowOfBand ==
    (ValleySplit /\ BandEnd - BandStart >= WindowSize) =>
        BestWindowInsideBand(cut.split) \/ BestWindowCentredInBand(cut.split)

\* the first column of least profile value inside the band
FirstMinimum ==
    CHOOSE c \in BandStart..(BandEnd - 1) :
        \A d \in BandStart..(BandEnd - 1) :
            Profile[c] <= Profile[d] /\ (d < c => Profile[d] > Profile[c])

\* C13 as amended: the windows tried start within WindowSize/2 columns of the
\* band's first minimum (and end inside the region); the split is the centre
\* of the first least of them, or the minimum column itself when none is tried.
C13_BestWindowNearMinimum ==
    ValleySplit =>
        LET lo == Max(0, FirstMinimum - WindowSize \div 2)
            hi == Min(image.W - WindowSize, FirstMinimum + WindowSize \div 2)
        IN  IF lo >= hi THEN cut.split = FirstMinimum
            ELSE \E i \in lo..(hi - 1) :
                    /\ cut.split = i + WindowSize \div 2
                    /\ \A j \in lo..(hi - 1) :
                          /\ WindowMass(i) <= WindowMass(j)
                          /\ j < i => WindowMass(j) > WindowMass(i)

\* witness of C13: on a sheet whose band holds a window the split is the
\* centre of a window near the minimum, and a window centred in the band is
\* better
C13_Witness ==
    /\ ValleySplit /\ BandEnd - BandStart >= WindowSize
    /\ cut.split # FirstMinimum
    /\ \E j \in 0..(image.W - WindowSize) :
          /\ j + WindowSize \div 2 \in BandStart..BandEnd
          /\ WindowMass(j) < WindowMass(cut.split - WindowSize \div 2)

\* C14: the split column returned by detect_answer_sheet_blocks lies within
\* the search band, the columns from W//2 - W//6 up to W//2 + W//6.
C14_SplitInsideBand ==
    ValleySplit => cut.split \in BandStart..BandEnd

----------------------------------------------------------------------------
(* Properties of the profile-based locator (SpecSeg) *)

\* detect_question_blocks ran on a readable sheet and found content rows
LocatorRan ==
    /\ entry = "segment" /\ method = "advanced" /\ pc = "done"
    /\ image.readable /\ ~cut.exc
    /\ Len(ContentRows(image)) > 0

\* rows a and b lie in one run
SameRun(runs, a, b) == \E k \in 1..Len(runs) : runs[k][1] <= a /\ b <= runs[k][2]

\* C15: two successive content rows lie in different runs exactly when more
\* than 10 non-content rows lie between them, and the run selected is one of
\* greatest extent.
C15_RowRunGrouping ==
    LocatorRan =>
        LET cr   == ContentRows(image)
            runs == RowRuns(cr, 1, 1)
            main == MainBlock(runs)
        IN  /\ \A i \in 1..(Len(cr) - 1) :
                  ~SameRun(runs, cr[i], cr[i + 1]) <=> (cr[i + 1] - cr[i] - 1 > 10)
            /\ \E k \in 1..Len(runs) : runs[k] = main
            /\ \A k \in 1..Len(runs) : runs[k][2] - runs[k][1] <= main[2] - main[1]

\* C16: the selected run is rejected (no blocks) exactly when its height in
\* rows is below min_block_height, and the crop of an accepted run has the
\* run's height.
C16_MinimumHeight ==
    LocatorRan =>
        LET main   == MainBlock(RowRuns(ContentRows(image), 1, 1))
            height == main[2] - main[1] + 1
        IN  /\ (cut.left = NoneV /\ segmented = NoneV) <=> height < MinBlockHeight
            /\ cut.left.k = "img" =>
                  cut.left.v.h = height /\ cut.right.v.h = height

----------------------------------------------------------------------------
(* Properties of the raw result's shape (Spec) *)

\* block k's reply is a JSON object whose questions_marked_processed is a
\* direct mapping of question keys to answers
MappingShaped(k) ==
    /\ serviceReply[k].k = "json" /\ serviceReply[k].v.k = "dict"
    /\ HasKey(serviceReply[k].v, "questions_marked_processed")
    /\ Lookup(serviceReply[k].v, "questions_marked_processed").k = "dict"

\* C12: a raw result whose questions_marked_processed is a direct mapping is
\* normalised without error, to one {question, answer} pair per entry of the
\* mapping, the answer lower-cased as for the array shape.
C12_MappingShapeAccepted ==
    \A k \in 1..NumBlocks :
        (FannedOut /\ MappingShaped(k)) =>
            /\ http.status = 200
            /\ IF http.status # 200 THEN FALSE
               ELSE LET mapping == Lookup(serviceReply[k].v, "questions_marked_processed").v
                    IN  /\ IsResponseEntry(ReportBlocks[k], k)
                        /\ Len(OutItems(k)) = Len(mapping)
                        /\ \A i \in 1..Len(mapping) :
                              Lookup(OutItems(k)[i], "answer") =
                                  IF mapping[i].val.k = "str"
                                  THEN StrV(Lowered(mapping[i].val.v))
                                  ELSE mapping[i].val

====
